---- MODULE Spec2Model ----
(***************************************************************************)
(* Vacuum gauge readout: the gauge classes of vacuumgaugereadout/gauges.py *)
(* and the readout thread of vacuumgaugereadout/readoutthread.py.          *)
(*                                                                         *)
(* Pressures are integers in units of 1e-4 mbar (2e-4 mbar is 2, 1e-3 mbar *)
(* is 10); 0 stands for every reading that is not above 1e-12 mbar.  The   *)
(* readings used are ones for which the double-precision quotient          *)
(* cur/prev compares with 1.005 and 0.995 as the exact quotient does.      *)
(***************************************************************************)
EXTENDS Integers, Sequences, FiniteSets, TLC

VARIABLES
    gauge,      \* gauge[g]: the VacuumGaugeBase object of gauge g
    thread,     \* thread[g]: the VacuumGaugeReadoutThread object of gauge g
    args,       \* args[g]: the thresholds the caller handed to the constructor
    device,     \* device[g]: the answers the instrument on g's port can give
    ret,        \* ret[g]: what the last call on g was and what came of it
    posted,     \* posted[g]: the messages handed to mattermost.post by the last call
    log,        \* log[g]: one entry per alert pass, for the first MaxPolls passes
    run,        \* run[g]: the serial handle of g and what the last tick of its loop did
    main        \* the supervisor of read_vacuum.py: where it is and what it posted

vars == <<gauge, thread, args, device, ret, posted, log, run, main>>

----------------------------------------------------------------------------
(* Bounds of the model *)

NumGauges == 2
MaxPolls == 5

Gauges == 1..NumGauges

----------------------------------------------------------------------------
(* Python values: None, and a value that is present *)

None == <<>>
Some(v) == <<v>>
Val(x) == x[1]

\* A Python list of booleans, or a lone bool: the two kinds of value the
\* thread's tracker attributes can be bound to.
PyList(items) == [kind |-> "list", items |-> items]
PyBool(b) == [kind |-> "bool", val |-> b]

\* x == b for a bool b: a list never equals a bool.
PyEqBool(x, b) == x.kind = "bool" /\ x.val = b

\* list == b, for a value that is a list: always False in Python.
ListEqBool(list, b) == FALSE

\* CPython keeps one object per integer in -5..256.
SmallIntMin == -5
SmallIntMax == 256

\* a is not b, for two int objects holding a and b.  Equal values outside the
\* small-integer cache are two objects or one, as the interpreter has it:
\* ident is that outcome.
IsNot(a, b, ident) ==
    IF a # b THEN TRUE
    ELSE IF a >= SmallIntMin /\ a <= SmallIntMax THEN FALSE
    ELSE ident

----------------------------------------------------------------------------
(* VacuumGaugeBase *)

\* PRESSURE_CHANGE_THRESHOLD = 0.005: UPPER_PRESSURE_LIMIT is 201/200 and
\* LOWER_PRESSURE_LIMIT is 199/200.
LimitScale == 200
UPPER_PRESSURE_LIMIT == 201
LOWER_PRESSURE_LIMIT == 199

\* 1e-12 mbar, in units of 1e-4 mbar rounded down.
TinyPressure == 0

Brands == {"pfeiffer", "mks", "edwards"}

\* utils.count_numbers_in_list: how many entries of the list are numbers;
\* no list, no numbers.
count_numbers_in_list(list) ==
    IF list = None THEN 0
    ELSE Cardinality({i \in 1..Len(Val(list)) : Val(list)[i] # None})

\* VacuumGaugeBase.__init__
VacuumGaugeBase_init(BRAND, serial_number, channels, falling_pressure_thresholds, rising_pressure_thresholds) ==
    [ BRAND |-> BRAND,
      serial_number |-> serial_number,
      channels |-> channels,
      falling_pressure_thresholds |-> falling_pressure_thresholds,
      rising_pressure_thresholds |-> rising_pressure_thresholds,
      enable_falling_pressure_alerts |->
          count_numbers_in_list(falling_pressure_thresholds) # 0,
      enable_risiing_pressure_alerts |->
          count_numbers_in_list(rising_pressure_thresholds) # 0,
      port |-> None,
      prev_status |-> [i \in 1..Len(channels) |-> None],
      prev_pressure |-> [i \in 1..Len(channels) |-> None],
      cur_status |-> [i \in 1..Len(channels) |-> None],
      cur_pressure |-> [i \in 1..Len(channels) |-> None],
      alert_pressure_falling |-> [i \in 1..Len(channels) |-> FALSE],
      alert_pressure_rising |-> [i \in 1..Len(channels) |-> FALSE] ]

\* MKSGauge.__init__, PfeifferGauge.__init__, EdwardsGauge.__init__: each calls
\* the parent constructor with (serial_number, channels, gauge_names) only.
Subclass_init(BRAND, serial_number, channels, falling_pressure_thresholds, rising_pressure_thresholds) ==
    VacuumGaugeBase_init(BRAND, serial_number, channels, None, None)

\* The VacuumGauge factory function.
VacuumGauge(brand, serial_number, channels, falling_pressure_thresholds, rising_pressure_thresholds) ==
    Subclass_init(brand, serial_number, channels, falling_pressure_thresholds,
                  rising_pressure_thresholds)

\* cur / prev > UPPER_PRESSURE_LIMIT
RatioAbove(cur, prev) == cur * LimitScale > prev * UPPER_PRESSURE_LIMIT

\* cur / prev < LOWER_PRESSURE_LIMIT
RatioBelow(cur, prev) == cur * LimitScale < prev * LOWER_PRESSURE_LIMIT

\* A loop body that lacks the "is not None" guards of lines 110 and 116 and
\* takes an absent previous value for a change.
ChannelNeedsUpdate_unguarded(g, i, ident) ==
    \/ g.prev_pressure[i] = None
    \/ g.prev_status[i] = None
    \/ /\ Val(g.prev_pressure[i]) > TinyPressure
       /\ \/ RatioAbove(Val(g.cur_pressure[i]), Val(g.prev_pressure[i]))
          \/ RatioBelow(Val(g.cur_pressure[i]), Val(g.prev_pressure[i]))
    \/ IsNot(Val(g.cur_status[i]), Val(g.prev_status[i]), ident)

\* The body of check_if_update_needed's loop for channel i, before the
\* previous values are overwritten: does channel i set update_values?
ChannelNeedsUpdate(g, i, ident) ==
    \/ /\ g.prev_pressure[i] # None
       /\ Val(g.prev_pressure[i]) > TinyPressure
       /\ \/ RatioAbove(Val(g.cur_pressure[i]), Val(g.prev_pressure[i]))
          \/ RatioBelow(Val(g.cur_pressure[i]), Val(g.prev_pressure[i]))
    \/ /\ g.prev_status[i] # None
       /\ IsNot(Val(g.cur_status[i]), Val(g.prev_status[i]), ident)

\* A check that commits the previous values only when it returns true.
check_if_update_needed_on_change(g, ident) ==
    [ value |-> \E i \in 1..Len(g.channels) : ChannelNeedsUpdate(g, i, ident),
      gauge |-> IF \E i \in 1..Len(g.channels) : ChannelNeedsUpdate(g, i, ident)
                THEN [g EXCEPT !.prev_pressure = g.cur_pressure,
                               !.prev_status = g.cur_status]
                ELSE g ]

\* A check that looks and leaves the previous values as they are.
check_if_update_needed_pure(g, ident) ==
    [ value |-> \E i \in 1..Len(g.channels) : ChannelNeedsUpdate(g, i, ident),
      gauge |-> g ]

\* VacuumGaugeBase.check_if_update_needed: the value returned and the gauge
\* afterwards.
check_if_update_needed(g, ident) ==
    [ value |-> \E i \in 1..Len(g.channels) : ChannelNeedsUpdate(g, i, ident),
      gauge |-> [g EXCEPT !.prev_pressure = g.cur_pressure,
                          !.prev_status = g.cur_status] ]

\* cur_pressure[i] < threshold[i] raises TypeError when either is None.
FallingRaises(g, i) ==
    /\ g.enable_falling_pressure_alerts
    /\ \/ g.cur_pressure[i] = None
       \/ Val(g.falling_pressure_thresholds)[i] = None

RisingRaises(g, i) ==
    /\ g.enable_risiing_pressure_alerts
    /\ \/ g.cur_pressure[i] = None
       \/ Val(g.rising_pressure_thresholds)[i] = None

\* The first channel at which a loop over channels 1..n raises, raising being
\* the channels whose body raises (one past the last channel when none does).
FirstRaise(n, raising) ==
    IF raising # {}
    THEN CHOOSE i \in raising : \A j \in raising : i <= j
    ELSE n + 1

\* VacuumGaugeBase.update_alerting_status: the gauge afterwards, and whether
\* the call raised.  The channels before the one that raises are done.
gauge_update_alerting_status(g) ==
    LET n == Len(g.channels)
        stop == FirstRaise(n, {i \in 1..n : FallingRaises(g, i) \/ RisingRaises(g, i)})
        fallingDone(i) == i < stop \/ (i = stop /\ ~FallingRaises(g, i))
        risingDone(i) == i < stop
    IN  [ raised |-> stop <= n,
          gauge |-> [g EXCEPT
            !.alert_pressure_falling = [i \in 1..n |->
                IF g.enable_falling_pressure_alerts /\ fallingDone(i)
                THEN Val(g.cur_pressure[i]) < Val(Val(g.falling_pressure_thresholds)[i])
                ELSE g.alert_pressure_falling[i]],
            !.alert_pressure_rising = [i \in 1..n |->
                IF g.enable_risiing_pressure_alerts /\ risingDone(i)
                THEN Val(g.cur_pressure[i]) > Val(Val(g.rising_pressure_thresholds)[i])
                ELSE g.alert_pressure_rising[i]] ] ]

----------------------------------------------------------------------------
(* get_pressures: what each gauge class makes of the instrument's answers *)

\* The answers an instrument can give to one query.  p and s are the pressure
\* and the status or error code the text carries (0 where it carries none).
Value(p, s) == [kind |-> "value", p |-> p, s |-> s]
ErrLine(code) == [kind |-> "err", p |-> 0, s |-> code]
EmptyLine == [kind |-> "empty", p |-> 0, s |-> 0]
Garbage == [kind |-> "garbage", p |-> 0, s |-> 0]
\* A line with the fields in place and a pressure field that is no number.
BadNumber(s) == [kind |-> "badnumber", p |-> 0, s |-> s]
\* No answer at all: the serial write or read raises SerialException.
Fault == [kind |-> "fault", p |-> 0, s |-> 0]

\* The pressure an Edwards gauge reports for an error line: 1010 mbar.
EDWARDS_ERROR_PRESSURE == 10100000

Set(p, s) == [act |-> "set", p |-> p, s |-> s]
Skip == [act |-> "skip", p |-> 0, s |-> 0]
Raise == [act |-> "raise", p |-> 0, s |-> 0]
\* The status is stored and then the conversion of the pressure raises.
StatusThenRaise(s) == [act |-> "status_raise", p |-> 0, s |-> s]
Raises(outcome) == outcome.act \in {"raise", "status_raise"}

\* MKSGauge.get_pressures, one channel: the parse sits in try/except: pass.
MKS_parse(resp) ==
    IF resp.kind = "value" THEN Set(resp.p, 0)
    ELSE IF resp.kind = "fault" THEN Raise
    ELSE Skip

\* PfeifferGauge.get_pressures, one channel: split on the comma, t[1], float().
Pfeiffer_parse(resp) ==
    IF resp.kind = "value" THEN Set(resp.p, resp.s)
    ELSE IF resp.kind = "badnumber" THEN StatusThenRaise(resp.s)
    ELSE Raise

\* An Edwards parse without the Err branch: every line goes to float().
Edwards_parse_number_only(resp) ==
    IF resp.kind = "value" THEN Set(resp.p, 0) ELSE Raise

\* EdwardsGauge.get_pressures, one channel: the Err pattern, else float().
Edwards_parse(resp) ==
    IF resp.kind = "err" THEN Set(EDWARDS_ERROR_PRESSURE, resp.s)
    ELSE IF resp.kind = "value" THEN Set(resp.p, 0)
    ELSE Raise

\* VacuumGaugeBase.get_pressures is the method a gauge class overrides: the
\* override of a class built on the base constructor stores what was read.
Override_parse(resp) ==
    IF resp.kind = "value" THEN Set(resp.p, resp.s) ELSE Raise

parse(BRAND, resp) ==
    CASE BRAND = "mks" -> MKS_parse(resp)
      [] BRAND = "pfeiffer" -> Pfeiffer_parse(resp)
      [] BRAND = "edwards" -> Edwards_parse(resp)
      [] OTHER -> Override_parse(resp)

\* get_pressures on answers resp[1..n], one per channel in channel order: the
\* gauge afterwards, and whether the call raised.
get_pressures(g, resp) ==
    LET n == Len(g.channels)
        stop == FirstRaise(n, {i \in 1..n : Raises(parse(g.BRAND, resp[i]))})
        stored(i) == i < stop /\ parse(g.BRAND, resp[i]).act = "set"
        status(i) == stored(i) \/ (i = stop /\ parse(g.BRAND, resp[i]).act = "status_raise")
    IN  [ raised |-> stop <= n,
          gauge |-> [g EXCEPT
            !.cur_pressure = [i \in 1..n |->
                IF stored(i) THEN Some(parse(g.BRAND, resp[i]).p)
                ELSE g.cur_pressure[i]],
            !.cur_status = [i \in 1..n |->
                IF status(i) THEN Some(parse(g.BRAND, resp[i]).s)
                ELSE g.cur_status[i]] ] ]

----------------------------------------------------------------------------
(* VacuumGaugeReadoutThread *)

\* VacuumGaugeReadoutThread.__init__: ports are the serial numbers of the
\* attached serial devices.  The gauge with its port set, the new thread, and
\* whether the constructor raised ValueError.
VacuumGaugeReadoutThread_init(g, mattermost_interface, ports) ==
    [ raised |-> g.serial_number \notin ports,
      gauge |-> IF g.serial_number \in ports
                THEN [g EXCEPT !.port = Some(g.serial_number)]
                ELSE g,
      thread |-> [ mattermost |-> mattermost_interface,
                   alert_pressure_falling |-> PyList([i \in 1..Len(g.channels) |-> FALSE]),
                   alert_pressure_rising |-> PyList([i \in 1..Len(g.channels) |-> FALSE]),
                   update_ctr |-> 0,
                   pc |-> "new" ] ]

\* A message builder that gives every alert the standard priority.
construct_mattermost_message_standard(g, channel_index, pressure_is_falling) ==
    [ channel_index |-> channel_index,
      falling |-> pressure_is_falling,
      priority |-> "STANDARD",
      pressure |-> g.cur_pressure[channel_index],
      threshold |-> IF pressure_is_falling
                    THEN Val(g.falling_pressure_thresholds)[channel_index]
                    ELSE Val(g.rising_pressure_thresholds)[channel_index] ]

\* construct_mattermost_message subscripts the threshold list of the class
\* (lines 110 and 117): TypeError when the gauge has no such list.
construct_raises(g, pressure_is_falling) ==
    IF pressure_is_falling
    THEN g.falling_pressure_thresholds = None
    ELSE g.rising_pressure_thresholds = None

\* construct_mattermost_message
construct_mattermost_message(g, channel_index, pressure_is_falling) ==
    [ channel_index |-> channel_index,
      falling |-> pressure_is_falling,
      priority |-> IF pressure_is_falling THEN "STANDARD" ELSE "URGENT",
      pressure |-> g.cur_pressure[channel_index],
      threshold |-> IF pressure_is_falling
                    THEN Val(g.falling_pressure_thresholds)[channel_index]
                    ELSE Val(g.rising_pressure_thresholds)[channel_index] ]

\* send_mattermost_message from inside the alert pass: st is the pass so far.
\* The message goes to mattermost.post when there is an interface; failAt is
\* the number of the post that raises (0: none does).
send_mattermost_message(st, mattermost, message, failAt) ==
    IF mattermost
    THEN [st EXCEPT !.posts = Append(st.posts, message),
                    !.raised = (Len(st.posts) + 1 = failAt)]
    ELSE st

\* A falling class that is level-triggered: it posts whenever the gauge's
\* flag is set, without looking at the tracker.
falling_branch_level(st, g, i, mattermost, failAt) ==
    IF st.f.kind # "list" THEN [st EXCEPT !.raised = TRUE]
    ELSE IF g.alert_pressure_falling[i] = TRUE
    THEN send_mattermost_message([st EXCEPT !.f = PyList([st.f.items EXCEPT ![i] = TRUE])],
                                 mattermost, construct_mattermost_message(g, i, TRUE), failAt)
    ELSE st

\* A falling class that posts first and sets the tracker once the post has
\* returned.
falling_branch_post_first(st, g, i, mattermost, failAt) ==
    IF st.f.kind # "list" THEN [st EXCEPT !.raised = TRUE]
    ELSE IF st.f.items[i] = FALSE /\ g.alert_pressure_falling[i] = TRUE
    THEN IF send_mattermost_message(st, mattermost,
                                    construct_mattermost_message(g, i, TRUE), failAt).raised
         THEN send_mattermost_message(st, mattermost,
                                      construct_mattermost_message(g, i, TRUE), failAt)
         ELSE send_mattermost_message([st EXCEPT !.f = PyList([st.f.items EXCEPT ![i] = TRUE])],
                                      mattermost, construct_mattermost_message(g, i, TRUE), failAt)
    ELSE st

\* Lines 132-138: the falling class for channel i.
falling_branch(st, g, i, mattermost, failAt) ==
    IF st.f.kind # "list" THEN [st EXCEPT !.raised = TRUE]
    ELSE IF st.f.items[i] = FALSE /\ g.alert_pressure_falling[i] = TRUE
    THEN send_mattermost_message([st EXCEPT !.f = PyList([st.f.items EXCEPT ![i] = TRUE])],
                                 mattermost, construct_mattermost_message(g, i, TRUE), failAt)
    ELSE IF PyEqBool(st.f, TRUE) /\ ListEqBool(g.alert_pressure_falling, FALSE)
    THEN [st EXCEPT !.f = PyBool(FALSE)]
    ELSE st

\* A rising class whose comparison takes the gauge's list for the flag of
\* channel i, and assigns the tracker as the code does, as a whole.
rising_branch_scalar(st, g, i, mattermost, failAt) ==
    IF g.alert_pressure_rising[i] = TRUE
    THEN send_mattermost_message([st EXCEPT !.r = PyBool(TRUE)],
                                 mattermost, construct_mattermost_message(g, i, FALSE), failAt)
    ELSE st

\* Lines 141-147: the rising class for channel i.
rising_branch(st, g, i, mattermost, failAt) ==
    IF PyEqBool(st.r, FALSE) /\ ListEqBool(g.alert_pressure_rising, TRUE)
    THEN send_mattermost_message([st EXCEPT !.r = PyBool(TRUE)],
                                 mattermost, construct_mattermost_message(g, i, FALSE), failAt)
    ELSE IF PyEqBool(st.r, TRUE) /\ ListEqBool(g.alert_pressure_falling, FALSE)
    THEN [st EXCEPT !.r = PyBool(FALSE)]
    ELSE st

\* The for loop of the thread's update_alerting_status from channel i on.
RECURSIVE alert_loop(_, _, _, _, _)
alert_loop(st, g, i, mattermost, failAt) ==
    IF i > Len(g.channels) \/ st.raised THEN st
    ELSE LET a == falling_branch(st, g, i, mattermost, failAt)
             b == IF a.raised THEN a ELSE rising_branch(a, g, i, mattermost, failAt)
         IN  alert_loop(b, g, i + 1, mattermost, failAt)

\* VacuumGaugeReadoutThread.update_alerting_status: the gauge's own
\* update_alerting_status, then the loop over the channels.
thread_update_alerting_status(t, g, failAt) ==
    LET u == gauge_update_alerting_status(g)
        st == alert_loop([f |-> t.alert_pressure_falling, r |-> t.alert_pressure_rising,
                          posts |-> <<>>, raised |-> FALSE], u.gauge, 1, t.mattermost, failAt)
    IN  IF u.raised
        THEN [raised |-> TRUE, gauge |-> u.gauge, thread |-> t, posts |-> <<>>]
        ELSE [raised |-> st.raised, gauge |-> u.gauge, posts |-> st.posts,
              thread |-> [t EXCEPT !.alert_pressure_falling = st.f,
                                   !.alert_pressure_rising = st.r]]

----------------------------------------------------------------------------
(* The objects under test and the instruments they talk to *)

\* The thresholds of the readings below: 1e-4 mbar and 1e-3 mbar.
Thresholds(falling, rising) == [falling |-> falling, rising |-> rising]

\* A call of a constructor: class is a brand handed to the VacuumGauge
\* factory, or "base" for a class built directly on VacuumGaugeBase.__init__.
Args(class, channels, thr) ==
    [class |-> class, channels |-> channels, falling |-> thr.falling, rising |-> thr.rising]

NoArgs == Args("none", <<>>, Thresholds(None, None))

Configured(g) == args[g].class # "none"

\* The object is still in use: no call on it has raised.
InUse(g) == Configured(g) /\ ~ret[g].raised

\* The gauge object the constructor call a makes for gauge number g, whose
\* serial number is g.
NewGauge(g, a) ==
    IF a.class \in Brands
    THEN VacuumGauge(a.class, g, a.channels, a.falling, a.rising)
    ELSE VacuumGaugeBase_init(a.class, g, a.channels, a.falling, a.rising)

Readings(P, S) == {Value(p, s) : p \in P, s \in S}

\* What a call saw when it was made: the gauge's previous values and the
\* thread's trackers.
Before(g, t) ==
    [ prev_pressure |-> g.prev_pressure,
      prev_status |-> g.prev_status,
      alert_pressure_falling |-> t.alert_pressure_falling,
      alert_pressure_rising |-> t.alert_pressure_rising ]

\* The record of a call: the method, the value returned (FALSE for a method
\* that returns nothing), whether it raised, and what it saw.
Call(op, value, raised, before) ==
    [op |-> op, value |-> value, raised |-> raised, before |-> before]

\* A gauge on the bench: how it is constructed, whether the thread has a
\* mattermost interface, and what its instrument can answer.
Bench(a, mattermost, answers) == [args |-> a, mattermost |-> mattermost, device |-> answers]

\* The run method has not been entered: no serial handle, no tick, nothing
\* posted by an exception handler.  handle tells which serial.Serial(...)
\* made the object self.gauge.serial refers to: none, the first of the
\* thread (run, line 163), or a later one.
NotRun == [serial |-> "unset", handle |-> "none", tick |-> <<>>, notices |-> <<>>]

\* The methods are called directly: read_vacuum.main is not running.
NoMain ==
    [ pc |-> "none", next |-> 0, interface |-> FALSE, ports |-> {}, script_id |-> "",
      interrupted |-> FALSE, killed |-> {}, posts |-> <<>> ]

\* Every gauge but gauge 1 is left out; gauge 1 is constructed as bench b says
\* and its thread is constructed with its serial port attached.
InitBench(b) ==
    /\ args = [g \in Gauges |-> IF g = 1 THEN b.args ELSE NoArgs]
    /\ device = [g \in Gauges |-> IF g = 1 THEN b.device ELSE {}]
    /\ gauge = [g \in Gauges |->
          VacuumGaugeReadoutThread_init(NewGauge(g, IF g = 1 THEN b.args ELSE NoArgs),
                                        b.mattermost, {1}).gauge]
    /\ thread = [g \in Gauges |->
          VacuumGaugeReadoutThread_init(NewGauge(g, IF g = 1 THEN b.args ELSE NoArgs),
                                        b.mattermost, {1}).thread]
    /\ ret = [g \in Gauges |->
          LET c == VacuumGaugeReadoutThread_init(NewGauge(g, IF g = 1 THEN b.args ELSE NoArgs),
                                                 b.mattermost, {1})
          IN  Call("__init__", FALSE, c.raised, Before(c.gauge, c.thread))]
    /\ posted = [g \in Gauges |-> <<>>]
    /\ log = [g \in Gauges |-> <<>>]
    /\ run = [g \in Gauges |-> NotRun]
    /\ main = NoMain

----------------------------------------------------------------------------
(* Calls of the gauge's methods *)

\* gauge.get_pressures()
GetPressures(g) ==
    /\ InUse(g)
    /\ \E resp \in [1..Len(gauge[g].channels) -> device[g]] :
         LET r == get_pressures(gauge[g], resp)
         IN  /\ gauge' = [gauge EXCEPT ![g] = r.gauge]
             /\ ret' = [ret EXCEPT ![g] = Call("get_pressures", FALSE, r.raised, Before(gauge[g], thread[g]))]
    /\ UNCHANGED <<thread, args, device, posted, log, run, main>>

\* gauge.check_if_update_needed()
CheckIfUpdateNeeded(g) ==
    /\ InUse(g)
    /\ \E ident \in BOOLEAN :
         LET r == check_if_update_needed(gauge[g], ident)
         IN  /\ gauge' = [gauge EXCEPT ![g] = r.gauge]
             /\ ret' = [ret EXCEPT ![g] = Call("check_if_update_needed", r.value, FALSE, Before(gauge[g], thread[g]))]
    /\ UNCHANGED <<thread, args, device, posted, log, run, main>>

\* gauge.update_alerting_status()
GaugeUpdateAlertingStatus(g) ==
    /\ InUse(g)
    /\ LET r == gauge_update_alerting_status(gauge[g])
       IN  /\ gauge' = [gauge EXCEPT ![g] = r.gauge]
           /\ ret' = [ret EXCEPT ![g] = Call("gauge.update_alerting_status", FALSE, r.raised, Before(gauge[g], thread[g]))]
    /\ UNCHANGED <<thread, args, device, posted, log, run, main>>

\* One entry of the log of alert passes: the reading the pass saw, the gauge's
\* flags after it, and the messages it posted.
LogEntry(g, posts) ==
    [ pressure |-> g.cur_pressure,
      falling |-> g.alert_pressure_falling,
      rising |-> g.alert_pressure_rising,
      posts |-> posts ]

\* thread.update_alerting_status()
ThreadUpdateAlertingStatus(g) ==
    /\ InUse(g)
    /\ \E failAt \in 0..1 :
         LET r == thread_update_alerting_status(thread[g], gauge[g], failAt)
         IN  /\ gauge' = [gauge EXCEPT ![g] = r.gauge]
             /\ thread' = [thread EXCEPT ![g] = r.thread]
             /\ posted' = [posted EXCEPT ![g] = r.posts]
             /\ ret' = [ret EXCEPT ![g] = Call("thread.update_alerting_status", FALSE, r.raised,
                                                Before(gauge[g], thread[g]))]
             /\ log' = [log EXCEPT ![g] =
                    IF Len(log[g]) < MaxPolls
                    THEN Append(log[g], LogEntry(r.gauge, r.posts))
                    ELSE log[g]]
    /\ UNCHANGED <<args, device, run, main>>

----------------------------------------------------------------------------
(* The gauge object under any sequence of calls of its methods *)

OneChannel == <<1>>
TwoChannels == <<1, 2>>

\* falling threshold 1e-4 mbar, rising threshold 1e-3 mbar, for one channel
\* and for two; and thresholds given for some channels only.
ThrOne == Thresholds(Some(<<Some(1)>>), Some(<<Some(10)>>))
ThrTwo == Thresholds(Some(<<Some(1), Some(1)>>), Some(<<Some(10), Some(10)>>))
ThrPartial == Thresholds(Some(<<Some(1), None>>), Some(<<Some(10), None>>))
ThrNone == Thresholds(None, None)

GaugeBenches ==
    { Bench(Args("base", OneChannel, ThrOne), TRUE, Readings({0, 2, 20}, {0, 1})),
      Bench(Args("pfeiffer", OneChannel, ThrOne), TRUE,
            Readings({0, 2, 199, 200, 201}, {0, 1, 300}) \cup {EmptyLine}),
      Bench(Args("edwards", OneChannel, ThrOne), TRUE,
            Readings({0, 2, 200, 201}, {0}) \cup {ErrLine(12), ErrLine(300), Garbage}),
      Bench(Args("mks", OneChannel, ThrNone), TRUE,
            Readings({0, 2, 200, 201}, {0}) \cup {EmptyLine, Garbage}),
      Bench(Args("base", TwoChannels, ThrPartial), TRUE, Readings({0, 20}, {0})),
      Bench(Args("pfeiffer", TwoChannels, ThrPartial), TRUE, Readings({0, 20}, {0})),
      Bench(Args("base", TwoChannels, ThrTwo), TRUE, Readings({0, 2, 20}, {0})) }

InitGauge == \E b \in GaugeBenches : InitBench(b)

NextGauge ==
    \E g \in Gauges :
        \/ GetPressures(g)
        \/ CheckIfUpdateNeeded(g)
        \/ GaugeUpdateAlertingStatus(g)

SpecGauge == InitGauge /\ [][NextGauge]_vars

----------------------------------------------------------------------------
(* The thread's alert pass under any sequence of readings *)

AlertBenches ==
    { Bench(Args("base", OneChannel, ThrOne), TRUE, Readings({0, 2, 20}, {0})),
      Bench(Args("base", OneChannel, ThrOne), FALSE, Readings({0, 2, 20}, {0})),
      Bench(Args("edwards", OneChannel, ThrOne), TRUE, Readings({0, 2, 20}, {0})),
      Bench(Args("base", TwoChannels, ThrTwo), TRUE, Readings({0, 20}, {0})) }

InitAlert == \E b \in AlertBenches : InitBench(b)

NextAlert ==
    \E g \in Gauges :
        \/ GetPressures(g)
        \/ ThreadUpdateAlertingStatus(g)

SpecAlert == InitAlert /\ [][NextAlert]_vars

----------------------------------------------------------------------------
(* What the properties below speak of *)

ChannelsOf(g) == 1..Len(gauge[g].channels)

\* How many of the messages in posts are for channel i and the given class.
PostsFor(posts, i, falling) ==
    Cardinality({k \in 1..Len(posts) :
                    posts[k].channel_index = i /\ posts[k].falling = falling})

\* x is a per-channel list whose entry i is b.
EntryIs(x, i, b) == x.kind = "list" /\ x.items[i] = b

\* The tracker of a class in a thread object (or in what a call saw), and the
\* gauge's flag of a class.
TrackerOf(t, falling) ==
    IF falling THEN t.alert_pressure_falling ELSE t.alert_pressure_rising

FlagOf(g, i, falling) ==
    IF falling THEN g.alert_pressure_falling[i] ELSE g.alert_pressure_rising[i]

\* The last call on g was the thread's alert pass.
AlertPass(g) == Configured(g) /\ ret[g].op = "thread.update_alerting_status"

\* ... and it ran to its end with a mattermost interface to post to.
AlertPassDone(g) == AlertPass(g) /\ ~ret[g].raised /\ thread[g].mattermost

\* The polls among the logged ones on which a message for (i, class) was posted.
NotifiedPolls(g, i, falling) ==
    {k \in 1..Len(log[g]) : PostsFor(log[g][k].posts, i, falling) > 0}

\* The gauge's flag for (i, class) on logged poll k.
LoggedFlag(g, k, i, falling) ==
    IF falling THEN log[g][k].falling[i] ELSE log[g][k].rising[i]

----------------------------------------------------------------------------
(* C1: in every alert pass, for every channel and each class, a tracker that
   is false with the gauge's flag true gets exactly one notification posted
   in that pass and is true afterwards. *)
C1_RisingEdgeNotifies ==
    \A g \in Gauges : AlertPassDone(g) =>
        \A i \in ChannelsOf(g), falling \in BOOLEAN :
            ( /\ EntryIs(TrackerOf(ret[g].before, falling), i, FALSE)
              /\ FlagOf(gauge[g], i, falling) )
            => ( /\ PostsFor(posted[g], i, falling) = 1
                 /\ EntryIs(TrackerOf(thread[g], falling), i, TRUE) )

(* C2: with the gauge's flag for one channel and one class taking the values
   false, true, true, false, true on the first five polls, notifications for
   it are posted on the second and the fifth poll and on no other. *)
C2_EdgeSequence ==
    \A g \in Gauges : \A i \in ChannelsOf(g), falling \in BOOLEAN :
        ( /\ Configured(g) /\ thread[g].mattermost
          /\ Len(log[g]) >= 5
          /\ [k \in 1..5 |-> LoggedFlag(g, k, i, falling)]
                = <<FALSE, TRUE, TRUE, FALSE, TRUE>> )
        => NotifiedPolls(g, i, falling) \cap (1..5) = {2, 5}

(* C3: in every alert pass, a tracker that is true with the gauge's flag false
   is false afterwards, nothing is posted for it, and the tracker is still a
   per-channel list of booleans. *)
C3_FallingEdgeClears ==
    \A g \in Gauges : AlertPassDone(g) =>
        \A i \in ChannelsOf(g), falling \in BOOLEAN :
            ( /\ EntryIs(TrackerOf(ret[g].before, falling), i, TRUE)
              /\ ~FlagOf(gauge[g], i, falling) )
            => ( /\ EntryIs(TrackerOf(thread[g], falling), i, FALSE)
                 /\ PostsFor(posted[g], i, falling) = 0 )

(* C4: no notification is posted for a channel and class on a pass where the
   tracker and the gauge's flag agree; and between two polls with a
   notification for the same channel and class there is a poll on which the
   gauge's flag was false. *)
C4_NoRepeat ==
    \A g \in Gauges : \A i \in ChannelsOf(g), falling \in BOOLEAN :
        /\ ( /\ AlertPass(g)
             /\ EntryIs(TrackerOf(ret[g].before, falling), i, FlagOf(gauge[g], i, falling)) )
           => PostsFor(posted[g], i, falling) = 0
        /\ \A k1, k2 \in NotifiedPolls(g, i, falling) :
              k1 < k2 => \E k \in (k1 + 1)..(k2 - 1) : ~LoggedFlag(g, k, i, falling)

\* A pass that found tracker and flag both true, and posted nothing.
C4_Witness ==
    \E g \in Gauges : \E i \in ChannelsOf(g) :
        /\ AlertPassDone(g)
        /\ EntryIs(ret[g].before.alert_pressure_falling, i, TRUE)
        /\ gauge[g].alert_pressure_falling[i]
        /\ posted[g] = <<>>

(* C5: a one-channel gauge from the VacuumGauge factory with rising threshold
   1e-3 and falling threshold 1e-4, reading 2e-4, 2e-3, 2e-4 on three polls:
   nothing posted on the first poll, exactly one rising notification on the
   second, nothing on the third. *)
C5_Scenario ==
    \A g \in Gauges :
        ( /\ args[g].class \in Brands
          /\ args[g] = Args(args[g].class, OneChannel, ThrOne)
          /\ thread[g].mattermost
          /\ Len(log[g]) >= 3
          /\ [k \in 1..3 |-> log[g][k].pressure[1]] = <<Some(2), Some(20), Some(2)>> )
        => ( /\ log[g][1].posts = <<>>
             /\ Len(log[g][2].posts) = 1
             /\ PostsFor(log[g][2].posts, 1, FALSE) = 1
             /\ log[g][3].posts = <<>> )

----------------------------------------------------------------------------
(* The last call on g was the gauge's method op, and it returned. *)
Returned(g, op) == Configured(g) /\ ret[g].op = op /\ ~ret[g].raised

\* Every channel of g has a current reading.
AllRead(g) == \A i \in ChannelsOf(g) : gauge[g].cur_pressure[i] # None

\* The entry for channel i of a threshold list handed to the constructor
\* (None when no list was handed over).
GivenThreshold(list, i) == IF list = None THEN None ELSE Val(list)[i]

(* C6: after update_alerting_status on a gauge from the VacuumGauge factory,
   of any brand, with a falling and a rising threshold given for channel i,
   the falling flag of i is (current pressure < falling threshold) and the
   rising flag of i is (current pressure > rising threshold). *)
C6_FlagsAreLevels ==
    \A g \in Gauges :
        ( /\ Returned(g, "gauge.update_alerting_status")
          /\ args[g].class \in Brands )
        => \A i \in ChannelsOf(g) :
              ( /\ gauge[g].cur_pressure[i] # None
                /\ GivenThreshold(args[g].falling, i) # None
                /\ GivenThreshold(args[g].rising, i) # None )
              => ( /\ gauge[g].alert_pressure_falling[i]
                        = (Val(gauge[g].cur_pressure[i]) < Val(GivenThreshold(args[g].falling, i)))
                   /\ gauge[g].alert_pressure_rising[i]
                        = (Val(gauge[g].cur_pressure[i]) > Val(GivenThreshold(args[g].rising, i))) )

\* The thresholds of a class are given for some channels of g and not for
\* others.
PartlyGiven(list, n) ==
    /\ list # None
    /\ \E i \in 1..n : Val(list)[i] # None
    /\ \E j \in 1..n : Val(list)[j] = None

(* C7: on a gauge with thresholds of a class for some channels and none for
   channel j, every update_alerting_status (with a reading on every channel)
   completes without error, the flag of that class stays false for j, and the
   flags of the channels with a threshold are computed. *)
C7_AbsentThresholdDisables ==
    \A g \in Gauges :
        ( /\ Configured(g) /\ ret[g].op = "gauge.update_alerting_status"
          /\ AllRead(g)
          /\ PartlyGiven(args[g].falling, Len(args[g].channels)) )
        => /\ ~ret[g].raised
           /\ \A i \in ChannelsOf(g) :
                gauge[g].alert_pressure_falling[i] =
                    ( /\ GivenThreshold(args[g].falling, i) # None
                      /\ Val(gauge[g].cur_pressure[i]) < Val(GivenThreshold(args[g].falling, i)) )

\* The quotient cur/prev exists and lies outside [0.995, 1.005] (in 200ths).
RatioOutside(cur, prev) ==
    /\ prev # None /\ Val(prev) # 0
    /\ \/ 200 * Val(cur) > 201 * Val(prev)
       \/ 200 * Val(cur) < 199 * Val(prev)

\* The quotient cur/prev is exactly 1.005 or exactly 0.995.
RatioOnLimit(cur, prev) ==
    /\ prev # None /\ Val(prev) # 0
    /\ \/ 200 * Val(cur) = 201 * Val(prev)
       \/ 200 * Val(cur) = 199 * Val(prev)

\* There is a previous status and the current one differs from it.
StatusDiffers(cur, prev) == prev # None /\ Val(cur) # Val(prev)

(* C8: every call of check_if_update_needed returns true exactly when, for
   some channel, the ratio of the current pressure to the previously
   evaluated one lies outside [0.995, 1.005] or the status differs from the
   previously evaluated one. *)
C8_UpdateIffChanged ==
    \A g \in Gauges :
        Returned(g, "check_if_update_needed") =>
            ( ret[g].value <=>
                \E i \in ChannelsOf(g) :
                    \/ RatioOutside(gauge[g].cur_pressure[i], ret[g].before.prev_pressure[i])
                    \/ StatusDiffers(gauge[g].cur_status[i], ret[g].before.prev_status[i]) )

\* The call saw no previous pressure and no previous status on any channel.
NothingPrevious(g) ==
    \A i \in ChannelsOf(g) :
        /\ ret[g].before.prev_pressure[i] = None
        /\ ret[g].before.prev_status[i] = None

(* C9: a call of check_if_update_needed that finds the previous pressure and
   status absent for every channel, as the first call after construction
   does, returns false whatever the reading. *)
C9_FirstCheckFalse ==
    \A g \in Gauges :
        (Returned(g, "check_if_update_needed") /\ NothingPrevious(g))
        => ~ret[g].value

\* A first reading with a nonzero status has been evaluated, and the call
\* returned false.
C9_Witness ==
    \E g \in Gauges :
        /\ Returned(g, "check_if_update_needed") /\ NothingPrevious(g)
        /\ AllRead(g)
        /\ \E i \in ChannelsOf(g) : Val(gauge[g].cur_status[i]) # 0
        /\ ~ret[g].value

(* C10: with the status unchanged on every channel, check_if_update_needed
   returns false when every channel's pressure is exactly 1.005 times or
   exactly 0.995 times the previous one, and returns true when some channel's
   ratio is strictly above 1.005 or strictly below 0.995. *)
C10_StrictLimits ==
    \A g \in Gauges :
        ( /\ Returned(g, "check_if_update_needed")
          /\ \A i \in ChannelsOf(g) :
                /\ ret[g].before.prev_status[i] # None
                /\ Val(gauge[g].cur_status[i]) = Val(ret[g].before.prev_status[i]) )
        => /\ (\A i \in ChannelsOf(g) :
                  RatioOnLimit(gauge[g].cur_pressure[i], ret[g].before.prev_pressure[i]))
              => ~ret[g].value
           /\ (\E i \in ChannelsOf(g) :
                  RatioOutside(gauge[g].cur_pressure[i], ret[g].before.prev_pressure[i]))
              => ret[g].value

----------------------------------------------------------------------------
(* VacuumGaugeReadoutThread.run: the polling loop *)

\* The number of ticks without a push after which one is forced.
UPDATE_CEILING == 60

\* A counter test that forces the push one tick early.
forced_at_ceiling(update_ctr) == update_ctr >= UPDATE_CEILING

\* Lines 176-177: if update_ctr > 60: update_values = True
forced(update_ctr) == update_ctr > UPDATE_CEILING

\* VacuumGaugeBase.open_serial_port: False without a port; serial.Serial
\* raises when the port cannot be opened.
open_serial_port(g, fault) ==
    [ value |-> g.port # None /\ ~fault,
      raised |-> g.port # None /\ fault ]

\* VacuumGaugeBase.push_to_grafana: the payload is formatted from the current
\* pressures outside the try ('%.9f' % None raises TypeError); requests.post
\* sits inside it, and what it raises is printed and dropped.
push_to_grafana(g, http) ==
    [ raised |-> \E i \in 1..Len(g.channels) : g.cur_pressure[i] = None,
      posted |-> \A i \in 1..Len(g.channels) : g.cur_pressure[i] # None,
      ok |-> (\A i \in 1..Len(g.channels) : g.cur_pressure[i] # None) /\ http = "ok" ]

\* mattermostpython's MattermostMessage.create_message_from_exception(e): the
\* message is made of the exception alone.
create_message_from_exception(e) ==
    [kind |-> "exception", priority |-> "URGENT", contents |-> {e}]

\* What the environment does during one tick: the instrument's answers, the
\* identity of equal status ints, which alert post raises, the metrics
\* endpoint, whether re-opening the port fails, whether the handler's post
\* raises.
TickInput(resp, ident, failAt, http, open_fault, post_fault) ==
    [ resp |-> resp, ident |-> ident, failAt |-> failAt, http |-> http,
      open_fault |-> open_fault, post_fault |-> post_fault ]

\* A loop body whose forced push short-circuits the check: with the counter
\* past the ceiling, check_if_update_needed is not called.
loop_body_skipping_check(t, g, in) ==
    LET ctr == t.update_ctr + 1
        op == IF g.BRAND = "mks" THEN open_serial_port(g, in.open_fault)
              ELSE [value |-> FALSE, raised |-> FALSE]
        gp == get_pressures(g, in.resp)
        ck == IF forced(ctr) THEN [value |-> FALSE, gauge |-> gp.gauge]
              ELSE check_if_update_needed(gp.gauge, in.ident)
        al == thread_update_alerting_status(t, ck.gauge, in.failAt)
        update_values == forced(ctr) \/ ck.value
        pu == push_to_grafana(al.gauge, in.http)
        e == IF op.raised THEN "open_serial_port"
             ELSE IF gp.raised THEN "get_pressures"
             ELSE IF al.raised THEN "update_alerting_status"
             ELSE IF update_values /\ pu.raised THEN "push_to_grafana"
             ELSE "none"
    IN  [ exception |-> e,
          ctr |-> ctr,
          opened |-> op.value,
          checked |-> e \notin {"open_serial_port", "get_pressures"},
          check |-> e \notin {"open_serial_port", "get_pressures"} /\ ck.value,
          pushed |-> e \in {"none", "push_to_grafana"} /\ update_values,
          push_ok |-> e = "none" /\ update_values /\ pu.ok,
          posts |-> IF e \in {"none", "push_to_grafana"} THEN al.posts ELSE <<>>,
          failed_post |-> IF e = "update_alerting_status" /\ al.posts # <<>>
                          THEN Some(al.posts[Len(al.posts)]) ELSE None,
          gauge |-> IF e = "open_serial_port" THEN g
                    ELSE IF e = "get_pressures" THEN gp.gauge
                    ELSE al.gauge,
          thread |-> [ (IF e \in {"open_serial_port", "get_pressures"} THEN t ELSE al.thread)
                       EXCEPT !.update_ctr = IF e = "none" /\ update_values THEN 0 ELSE ctr,
                              !.pc = IF e = "none" THEN "polling" ELSE "terminated" ] ]

\* The body of the while loop, lines 171-194, up to the exception it raises
\* ("none": it reaches the sleep).
loop_body(t, g, in) ==
    LET ctr == t.update_ctr + 1
        op == IF g.BRAND = "mks" THEN open_serial_port(g, in.open_fault)
              ELSE [value |-> FALSE, raised |-> FALSE]
        gp == get_pressures(g, in.resp)
        ck == check_if_update_needed(gp.gauge, in.ident)
        al == thread_update_alerting_status(t, ck.gauge, in.failAt)
        update_values == forced(ctr) \/ ck.value
        pu == push_to_grafana(al.gauge, in.http)
        e == IF op.raised THEN "open_serial_port"
             ELSE IF gp.raised THEN "get_pressures"
             ELSE IF al.raised THEN "update_alerting_status"
             ELSE IF update_values /\ pu.raised THEN "push_to_grafana"
             ELSE "none"
    IN  [ exception |-> e,
          ctr |-> ctr,
          opened |-> op.value,
          checked |-> e \notin {"open_serial_port", "get_pressures"},
          check |-> e \notin {"open_serial_port", "get_pressures"} /\ ck.value,
          pushed |-> e \in {"none", "push_to_grafana"} /\ update_values,
          push_ok |-> e = "none" /\ update_values /\ pu.ok,
          posts |-> IF e \in {"none", "push_to_grafana"} THEN al.posts ELSE <<>>,
          failed_post |-> IF e = "update_alerting_status" /\ al.posts # <<>>
                          THEN Some(al.posts[Len(al.posts)]) ELSE None,
          gauge |-> IF e = "open_serial_port" THEN g
                    ELSE IF e = "get_pressures" THEN gp.gauge
                    ELSE al.gauge,
          thread |-> [ (IF e \in {"open_serial_port", "get_pressures"} THEN t ELSE al.thread)
                       EXCEPT !.update_ctr = IF e = "none" /\ update_values THEN 0 ELSE ctr,
                              !.pc = IF e = "none" THEN "polling" ELSE "terminated" ] ]

\* The except clause, lines 196-205: the message from the exception goes to
\* send_mattermost_message, then the serial handle is closed.  A post that
\* raises leaves the clause before the close.
handler(t, r, e, post_fault) ==
    [ serial |-> IF t.mattermost /\ post_fault THEN r.serial ELSE "closed",
      notices |-> IF t.mattermost /\ ~post_fault
                  THEN Append(r.notices, create_message_from_exception(e))
                  ELSE r.notices ]

\* What a tick leaves for the properties: the counter after its increment,
\* the answers read, the current values before, and what the body did
\* (failed_post: the alert message whose post raised, if one did).
TickRecord(g, b, in) ==
    [ ctr |-> b.ctr, resp |-> in.resp,
      cur_pressure |-> g.cur_pressure, cur_status |-> g.cur_status,
      checked |-> b.checked, check |-> b.check,
      pushed |-> b.pushed, push_ok |-> b.push_ok,
      failed_post |-> b.failed_post,
      exception |-> b.exception ]

\* A supervisor that runs a thread again once it has ended.
Open_restart(g) ==
    /\ thread[g].pc \in {"started", "terminated"}
    /\ \E fault \in (IF Fault \in device[g] THEN BOOLEAN ELSE {FALSE}) :
         LET o == open_serial_port(gauge[g], fault)
         IN  /\ thread' = [thread EXCEPT ![g].pc = IF o.value THEN "polling" ELSE "terminated",
                                         ![g].update_ctr = 0]
             /\ run' = [run EXCEPT ![g].serial = IF o.value THEN "open" ELSE "unset",
                                   ![g].handle = IF o.value THEN "first" ELSE "none"]
             /\ ret' = [ret EXCEPT ![g] = Call("open_serial_port", o.value, o.raised,
                                                Before(gauge[g], thread[g]))]
    /\ UNCHANGED <<gauge, args, device, posted, log, main>>

\* A run whose counter is shared by the threads: opening the port of one
\* gauge puts the counter of every thread back to 0.
Open_all(g) ==
    /\ thread[g].pc = "started"
    /\ \E fault \in (IF Fault \in device[g] THEN BOOLEAN ELSE {FALSE}) :
         LET o == open_serial_port(gauge[g], fault)
         IN  /\ thread' = [h \in Gauges |->
                             [thread[h] EXCEPT !.pc = IF h # g THEN thread[h].pc
                                                      ELSE IF o.value THEN "polling"
                                                      ELSE "terminated",
                                               !.update_ctr = 0]]
             /\ run' = [run EXCEPT ![g].serial = IF o.value THEN "open" ELSE "unset",
                                   ![g].handle = IF o.value THEN "first" ELSE "none"]
             /\ ret' = [ret EXCEPT ![g] = Call("open_serial_port", o.value, o.raised,
                                                Before(gauge[g], thread[g]))]
    /\ UNCHANGED <<gauge, args, device, posted, log, main>>

\* run, lines 157-165: the port is opened before the try; an exception of
\* serial.Serial ends the thread with no handler around it.
Open(g) ==
    /\ thread[g].pc = "started"
    /\ \E fault \in (IF Fault \in device[g] THEN BOOLEAN ELSE {FALSE}) :
         LET o == open_serial_port(gauge[g], fault)
         IN  /\ thread' = [thread EXCEPT ![g].pc = IF o.value THEN "polling" ELSE "terminated",
                                         ![g].update_ctr = 0]
             /\ run' = [run EXCEPT ![g].serial = IF o.value THEN "open" ELSE "unset",
                                   ![g].handle = IF o.value THEN "first" ELSE "none"]
             /\ ret' = [ret EXCEPT ![g] = Call("open_serial_port", o.value, o.raised,
                                                Before(gauge[g], thread[g]))]
    /\ UNCHANGED <<gauge, args, device, posted, log, main>>

\* Some status in play lies outside the cached ints, so that identity matters.
IdentMatters(g) ==
    \E x \in device[g] : x.s < SmallIntMin \/ x.s > SmallIntMax

\* One pass of the while loop, with the except clause when the body raises.
Tick(g) ==
    /\ thread[g].pc = "polling"
    /\ \E resp \in [1..Len(gauge[g].channels) -> device[g]],
          ident \in (IF IdentMatters(g) THEN BOOLEAN ELSE {TRUE}),
          failAt \in 0..(IF thread[g].mattermost THEN 1 ELSE 0),
          http \in {"ok", "error"},
          open_fault \in (IF Fault \in device[g] /\ gauge[g].BRAND = "mks"
                          THEN BOOLEAN ELSE {FALSE}),
          post_fault \in (IF thread[g].mattermost THEN BOOLEAN ELSE {FALSE}) :
         \E in \in {TickInput(resp, ident, failAt, http, open_fault, post_fault)} :
         \E b \in {loop_body(thread[g], gauge[g], in)} :
         \E h \in {handler(thread[g], run[g], b.exception, post_fault)} :
             /\ gauge' = [gauge EXCEPT ![g] = b.gauge]
             /\ thread' = [thread EXCEPT ![g] = b.thread]
             /\ posted' = [posted EXCEPT ![g] = b.posts]
             /\ run' = [run EXCEPT ![g] =
                    [ serial |-> IF b.exception = "none" THEN "open" ELSE h.serial,
                      handle |-> IF b.opened THEN "later" ELSE run[g].handle,
                      notices |-> IF b.exception = "none" THEN run[g].notices ELSE h.notices,
                      tick |-> Some(TickRecord(gauge[g], b, in)) ]]
             /\ ret' = [ret EXCEPT ![g] = Call("run", b.check, b.exception # "none",
                                                Before(gauge[g], thread[g]))]
    /\ UNCHANGED <<args, device, log, main>>

----------------------------------------------------------------------------
(* read_vacuum.main: the supervisor *)

\* The thread object before main constructs it.
NoThread(g) ==
    [VacuumGaugeReadoutThread_init(g, FALSE, {}).thread EXCEPT !.pc = "unborn"]

\* The gauges main was given, in list order: gauges 1..NumConfigured.
NumConfigured == Cardinality({g \in Gauges : Configured(g)})

\* threading.Thread.join returns at once.
join_returns_at_once(t) == TRUE

\* threading.Thread.join: returns once the thread's run has ended.
join_returns(t) == t.pc = "terminated"

\* VacuumGaugeReadoutThread.kill_thread, which main calls on interruption: a
\* cooperative request to stop, recorded for the thread.
kill_thread(killed, g) == killed \cup {g}

\* The message main posts when it is through.
completion_message(script_id) ==
    [kind |-> "completion", priority |-> "STANDARD", contents |-> {script_id}]

\* Lines 25-28, one pass of the for loop: construct the thread of the next
\* gauge and start it.  The constructor's ValueError is not caught in main.
MainStart ==
    /\ main.pc = "start"
    /\ LET g == main.next
           c == VacuumGaugeReadoutThread_init(gauge[g], main.interface, main.ports)
       IN  /\ ret' = [ret EXCEPT ![g] = Call("__init__", FALSE, c.raised, Before(gauge[g], thread[g]))]
           /\ IF c.raised
              THEN /\ main' = [main EXCEPT !.pc = "raised"]
                   /\ UNCHANGED <<gauge, thread>>
              ELSE /\ gauge' = [gauge EXCEPT ![g] = c.gauge]
                   /\ thread' = [thread EXCEPT ![g] = [c.thread EXCEPT !.pc = "started"]]
                   /\ main' = [main EXCEPT !.pc = IF g = NumConfigured THEN "join" ELSE "start",
                                           !.next = IF g = NumConfigured THEN 1 ELSE g + 1]
    /\ UNCHANGED <<args, device, posted, log, run>>

\* Lines 32-33, one pass of the for loop: join the next thread.
MainJoin ==
    /\ main.pc = "join"
    /\ main.next <= NumConfigured
    /\ join_returns(thread[main.next])
    /\ main' = [main EXCEPT !.next = main.next + 1]
    /\ UNCHANGED <<gauge, thread, args, device, ret, posted, log, run>>

\* Lines 34-36: KeyboardInterrupt while main joins; kill_thread for every
\* thread of the list.
MainInterrupt ==
    /\ main.pc = "join"
    /\ main.next <= NumConfigured
    /\ main' = [main EXCEPT !.interrupted = TRUE,
                            !.killed = {g \in Gauges : g \in kill_thread(main.killed, g)
                                                       /\ g <= NumConfigured},
                            !.next = NumConfigured + 1]
    /\ UNCHANGED <<gauge, thread, args, device, ret, posted, log, run>>

\* Lines 39-48: the completion message, and main returns.
MainFinish ==
    /\ main.pc = "join"
    /\ main.next > NumConfigured
    /\ main' = [main EXCEPT !.pc = "done",
                            !.posts = IF main.interface
                                      THEN Append(main.posts, completion_message(main.script_id))
                                      ELSE main.posts]
    /\ UNCHANGED <<gauge, thread, args, device, ret, posted, log, run>>

----------------------------------------------------------------------------
(* The whole program: main, and one polling loop per gauge *)

\* One gauge of a run: its constructor call and its instrument.
RunGauge(a, answers) == [args |-> a, device |-> answers]

\* A run: the gauges of the command line in order, whether there is a
\* mattermost interface, and the serial numbers that have a port.
Run(gauges, mattermost, ports) == [gauges |-> gauges, mattermost |-> mattermost, ports |-> ports]

InitRun(b) ==
    /\ args = [g \in Gauges |-> IF g <= Len(b.gauges) THEN b.gauges[g].args ELSE NoArgs]
    /\ device = [g \in Gauges |-> IF g <= Len(b.gauges) THEN b.gauges[g].device ELSE {}]
    /\ gauge = [g \in Gauges |->
                  NewGauge(g, IF g <= Len(b.gauges) THEN b.gauges[g].args ELSE NoArgs)]
    /\ thread = [g \in Gauges |->
                  NoThread(NewGauge(g, IF g <= Len(b.gauges) THEN b.gauges[g].args ELSE NoArgs))]
    /\ ret = [g \in Gauges |->
                  Call("VacuumGauge", FALSE, FALSE,
                       Before(NewGauge(g, IF g <= Len(b.gauges) THEN b.gauges[g].args ELSE NoArgs),
                              NoThread(NewGauge(g, IF g <= Len(b.gauges) THEN b.gauges[g].args ELSE NoArgs))))]
    /\ posted = [g \in Gauges |-> <<>>]
    /\ log = [g \in Gauges |-> <<>>]
    /\ run = [g \in Gauges |-> NotRun]
    /\ main = [ pc |-> "start", next |-> 1, interface |-> b.mattermost, ports |-> b.ports,
                script_id |-> "id", interrupted |-> FALSE, killed |-> {}, posts |-> <<>> ]

Steady == {Value(2, 0)}

\* One gauge of each class, with the answers its instrument can give.
RunPfeiffer ==
    Run(<<RunGauge(Args("pfeiffer", OneChannel, ThrOne),
                   {Value(2, 0), Value(20, 0), EmptyLine, BadNumber(1)})>>, TRUE, {1})
RunMKSTwo ==
    Run(<<RunGauge(Args("mks", TwoChannels, ThrNone), {Value(2, 0), Garbage})>>, TRUE, {1})
RunMKS ==
    Run(<<RunGauge(Args("mks", OneChannel, ThrNone), {Value(2, 0), EmptyLine, Fault})>>, TRUE, {1})
RunEdwards ==
    Run(<<RunGauge(Args("edwards", OneChannel, ThrOne),
                   {Value(2, 0), ErrLine(12), EmptyLine, BadNumber(0), Fault})>>, FALSE, {1})
RunBase ==
    Run(<<RunGauge(Args("base", OneChannel, ThrOne), {Value(0, 0), Value(20, 0), Fault})>>, TRUE, {1})

\* Two gauges: both with a port, the first of which can fault; and one of the
\* two without a port.
RunPair(ports) ==
    Run(<<RunGauge(Args("pfeiffer", OneChannel, ThrNone), Steady \cup {Fault}),
          RunGauge(Args("pfeiffer", OneChannel, ThrNone), Steady)>>, TRUE, ports)

Runs ==
    { RunPfeiffer, RunMKSTwo, RunMKS, RunEdwards, RunBase,
      RunPair({1, 2}), RunPair({1}), RunPair({2}) }

Init == \E b \in Runs : InitRun(b)

Next ==
    \/ MainStart
    \/ MainJoin
    \/ MainInterrupt
    \/ MainFinish
    \/ \E g \in Gauges : Open(g)
    \/ \E g \in Gauges : Tick(g)

Spec == Init /\ [][Next]_vars

\* The thread of g gets its turn: this is WF_vars(Open(g) \/ Tick(g)) written
\* out.  The thread can take a step exactly when it is started or polling, and
\* the steps that change its record or its loop are its own once main has
\* started it.
Scheduled(g) ==
    \/ []<>(thread[g].pc \notin {"started", "polling"})
    \/ []<><<TRUE>>_<<thread[g], run[g]>>

\* main and every thread get their turn (run() is the body of a
\* threading.Thread, main is the main thread of the interpreter).
FairSpec ==
    /\ Spec
    /\ WF_vars(MainStart \/ MainJoin \/ MainFinish)
    /\ \A g \in Gauges : Scheduled(g)

----------------------------------------------------------------------------
(* What the properties of the loop speak of *)

\* The loop of g has gone through a tick; LastTick is what that tick did.
Ticked(g) == run[g].tick # None
LastTick(g) == Val(run[g].tick)

\* The last tick of g got as far as deciding whether to push.
Decided(g) == Ticked(g) /\ LastTick(g).exception \in {"none", "push_to_grafana"}

\* The last tick of g ended in the except clause.
Excepted(g) == Ticked(g) /\ LastTick(g).exception # "none"

(* C11: from a counter of 0, with check_if_update_needed false on every tick,
   a push occurs on the 60th tick, the one on which the counter reaches 60,
   and the counter is 0 at the end of that tick. *)
C11_ForcedOnSixtieth ==
    \A g \in Gauges :
        ( /\ Ticked(g)
          /\ LastTick(g).exception = "none"
          /\ LastTick(g).ctr = 60
          /\ ~LastTick(g).check )
        => ( LastTick(g).pushed /\ thread[g].update_ctr = 0 )

(* C11, amended: with check_if_update_needed false, a tick calls
   push_to_grafana exactly when the counter, incremented at the start of the
   tick, exceeds 60, which is the 61st tick after the counter was 0; a tick
   that reaches its sleep leaves the counter at 0 when it pushed and at the
   incremented value when it did not. *)
C11_ForcedOnSixtyFirst ==
    \A g \in Gauges :
        /\ thread[g].update_ctr <= UPDATE_CEILING + 1
        /\ (Decided(g) /\ ~LastTick(g).check)
           => /\ LastTick(g).pushed <=> LastTick(g).ctr = 61
              /\ LastTick(g).exception = "none"
                 => thread[g].update_ctr = IF LastTick(g).pushed THEN 0 ELSE LastTick(g).ctr

\* The 61st tick without a change: it pushed and reset the counter.
C11_Witness ==
    \E g \in Gauges :
        /\ Decided(g) /\ ~LastTick(g).check
        /\ LastTick(g).ctr = 61
        /\ LastTick(g).pushed
        /\ LastTick(g).exception = "none"
        /\ thread[g].update_ctr = 0

(* C12: a tick that decides to push, forced or for a change, never takes the
   loop out of polling, whatever push_to_grafana meets and whatever the
   current readings are, a channel without a pressure included. *)
C12_PushNeverEndsLoop ==
    \A g \in Gauges :
        (Ticked(g) /\ LastTick(g).pushed) => thread[g].pc = "polling"

(* C13: when a tick of a thread that has the notification channel raises an
   exception outside push_to_grafana, the loop ends and exactly one
   termination notification is posted, of urgent priority and containing the
   script identifier. *)
C13_OneUrgentNotice ==
    \A g \in Gauges :
        ( /\ Excepted(g)
          /\ LastTick(g).exception # "push_to_grafana"
          /\ thread[g].mattermost )
        =>
            /\ thread[g].pc = "terminated"
            /\ Len(run[g].notices) = 1
            /\ run[g].notices[1].priority = "URGENT"
            /\ main.script_id \in run[g].notices[1].contents

(* C14: a loop that left polling through an exception has its serial handle
   closed once the thread is terminated, also when the post of the
   termination notification fails. *)
C14_SerialClosed ==
    \A g \in Gauges :
        (Excepted(g) /\ thread[g].pc = "terminated") => run[g].serial = "closed"

\* The thread of g has just ended on a failure of its serial port: the open
\* before the loop raised, or the port raised during the last tick.
TransportFault(g) ==
    \/ ret[g].op = "open_serial_port" /\ ret[g].raised
    \/ /\ Excepted(g)
       /\ LastTick(g).exception \in {"open_serial_port", "get_pressures"}
       /\ \/ LastTick(g).exception = "open_serial_port"
          \/ \E i \in ChannelsOf(g) : LastTick(g).resp[i] = Fault

(* C15: a failure of the serial port of gauge g (open, read or write) ends
   the loop of g only and posts a notification for g; the readings, previous
   values, flags, trackers and counter of every other gauge are as they were. *)
C15_FaultIsolated ==
    [][ \A g \in Gauges :
          ( /\ thread[g].pc # "terminated"
            /\ thread'[g].pc = "terminated"
            /\ TransportFault(g)' )
          => /\ Len(run'[g].notices) = Len(run[g].notices) + 1
             /\ \A h \in Gauges \ {g} :
                  /\ gauge'[h] = gauge[h]
                  /\ thread'[h] = thread[h]
                  /\ run'[h] = run[h] ]_vars

(* C16: when the lookup of the serial number fails for one gauge of the list,
   every other gauge of the list, before and after it, has its thread started
   by the time main is through with starting. *)
C16_OthersStillStart ==
    main.pc \in {"join", "done", "raised"} =>
        \A g \in Gauges :
            (Configured(g) /\ g \in main.ports) => thread[g].pc # "unborn"

(* C17: when main is interrupted while it waits for the threads, every loop
   is asked to stop, and every loop that was polling eventually is terminated
   with its serial handle closed. *)
C17_InterruptStopsLoops ==
    /\ [](main.interrupted => \A g \in Gauges : Configured(g) => g \in main.killed)
    /\ \A g \in Gauges :
          (main.interrupted /\ thread[g].pc = "polling")
              ~> (thread[g].pc = "terminated" /\ run[g].serial = "closed")

(* C18: without an interruption, main posts its completion message and
   returns only once every thread it started is terminated. *)
C18_CompletionAfterAll ==
    ( /\ ~main.interrupted
      /\ main.pc = "done" \/ main.posts # <<>> )
    => \A g \in Gauges :
          thread[g].pc \notin {"started", "polling"}

\* main has posted the completion message after the thread of gauge 1 ended.
C18_Witness ==
    /\ ~main.interrupted
    /\ main.pc = "done"
    /\ Len(main.posts) = 1
    /\ Ticked(1)
    /\ thread[1].pc = "terminated"

(* C19: for each of the three gauge classes, a tick in which a serial read
   returns no data (an empty line after the timeout) has get_pressures raise,
   and the loop is terminated in that tick. *)
C19_NoDataTerminates ==
    \A g \in Gauges :
        ( /\ Ticked(g)
          /\ gauge[g].BRAND \in Brands
          /\ LastTick(g).exception # "open_serial_port"
          /\ \E i \in ChannelsOf(g) : LastTick(g).resp[i] = EmptyLine )
        => ( LastTick(g).exception = "get_pressures" /\ thread[g].pc = "terminated" )

\* The answer is there and cannot be parsed.
Malformed(resp) == resp.kind \in {"garbage", "badnumber"}

(* C20: for each of the three gauge classes, when the answer for channel k is
   not empty and malformed, get_pressures does not raise, the current
   pressure and status of k stay as they were, and the other channels of the
   poll are read and stored. *)
C20_MalformedSkipped ==
    \A g \in Gauges :
        ( /\ Ticked(g)
          /\ gauge[g].BRAND \in Brands
          /\ LastTick(g).exception # "open_serial_port"
          /\ \A i \in ChannelsOf(g) : LastTick(g).resp[i].kind \in {"value", "garbage", "badnumber"} )
        => /\ LastTick(g).exception # "get_pressures"
           /\ \A k \in ChannelsOf(g) :
                IF Malformed(LastTick(g).resp[k])
                THEN /\ gauge[g].cur_pressure[k] = LastTick(g).cur_pressure[k]
                     /\ gauge[g].cur_status[k] = LastTick(g).cur_status[k]
                ELSE gauge[g].cur_pressure[k] = Some(LastTick(g).resp[k].p)

----------------------------------------------------------------------------
(* The answers of an Edwards gauge *)

\* Channel i was queried in the last tick of g and every answer up to i was
\* an Err line or a number.
EdwardsAnswered(g, i) ==
    /\ Ticked(g)
    /\ gauge[g].BRAND = "edwards"
    /\ \A j \in 1..i : LastTick(g).resp[j].kind \in {"err", "value"}

(* C21: in EdwardsGauge.get_pressures an Err line with digits sets the
   channel's pressure to 1010 and its status to the number the digits spell,
   a number sets the pressure to it and the status to 0, and a poll made of
   such lines only does not raise. *)
C21_EdwardsErrSentinel ==
    \A g \in Gauges : \A i \in ChannelsOf(g) :
        EdwardsAnswered(g, i) =>
            /\ LastTick(g).resp[i].kind = "err"
                 => /\ gauge[g].cur_pressure[i] = Some(EDWARDS_ERROR_PRESSURE)
                    /\ gauge[g].cur_status[i] = Some(LastTick(g).resp[i].s)
            /\ LastTick(g).resp[i].kind = "value"
                 => /\ gauge[g].cur_pressure[i] = Some(LastTick(g).resp[i].p)
                    /\ gauge[g].cur_status[i] = Some(0)
            /\ i = Len(gauge[g].channels) => LastTick(g).exception # "get_pressures"

\* An Edwards gauge has answered Err12 and its loop is still polling.
C21_Witness ==
    \E g \in Gauges :
        /\ EdwardsAnswered(g, 1)
        /\ LastTick(g).resp[1] = ErrLine(12)
        /\ gauge[g].cur_pressure[1] = Some(EDWARDS_ERROR_PRESSURE)
        /\ gauge[g].cur_status[1] = Some(12)
        /\ thread[g].pc = "polling"

----------------------------------------------------------------------------
(* The messages of the two alert classes *)

\* thread.construct_mattermost_message(i, pressure_is_falling), called for any
\* channel and either class; the message it returns is kept in posted.
ConstructMessage(g) ==
    /\ InUse(g)
    /\ \E i \in ChannelsOf(g), pressure_is_falling \in BOOLEAN :
         /\ posted' = [posted EXCEPT ![g] =
                IF construct_raises(gauge[g], pressure_is_falling) THEN <<>>
                ELSE <<construct_mattermost_message(gauge[g], i, pressure_is_falling)>>]
         /\ ret' = [ret EXCEPT ![g] =
                Call("construct_mattermost_message", FALSE,
                     construct_raises(gauge[g], pressure_is_falling),
                     Before(gauge[g], thread[g]))]
    /\ UNCHANGED <<gauge, thread, args, device, log, run, main>>

\* Thresholds for the falling class only.
ThrFalling == Thresholds(Some(<<Some(1)>>), None)

MessageBenches ==
    { Bench(Args("base", OneChannel, ThrOne), TRUE, Readings({0, 20}, {0})),
      Bench(Args("base", TwoChannels, ThrTwo), TRUE, Readings({0}, {0})),
      Bench(Args("base", OneChannel, ThrFalling), TRUE, Readings({0}, {0})),
      Bench(Args("pfeiffer", OneChannel, ThrOne), TRUE, Readings({2}, {0})),
      Bench(Args("mks", OneChannel, ThrOne), TRUE, Readings({2}, {0})),
      Bench(Args("edwards", OneChannel, ThrOne), TRUE, Readings({2}, {0})) }

InitMessage == \E b \in MessageBenches : InitBench(b)

NextMessage ==
    \E g \in Gauges :
        \/ GetPressures(g)
        \/ ThreadUpdateAlertingStatus(g)
        \/ ConstructMessage(g)

SpecMessage == InitMessage /\ [][NextMessage]_vars

(* C22: every alert message built for the falling class has standard
   priority and every one built for the rising class has urgent priority, on
   every channel and for a gauge of any class; and the message an alert pass
   posts when the falling tracker of a channel turns true is a standard one
   for that channel. *)
C22_PriorityByClass ==
    \A g \in Gauges :
        /\ \A k \in 1..Len(posted[g]) :
              posted[g][k].priority = IF posted[g][k].falling THEN "STANDARD" ELSE "URGENT"
        /\ AlertPassDone(g) =>
              \A i \in ChannelsOf(g) :
                  ( /\ EntryIs(ret[g].before.alert_pressure_falling, i, FALSE)
                    /\ EntryIs(thread[g].alert_pressure_falling, i, TRUE) )
                  => \E k \in 1..Len(posted[g]) :
                        /\ posted[g][k].channel_index = i
                        /\ posted[g][k].priority = "STANDARD"

\* A rising message has been built for the second channel of a gauge.
C22_Witness ==
    \E g \in Gauges :
        /\ ret[g].op = "construct_mattermost_message"
        /\ Len(posted[g]) = 1
        /\ posted[g][1].channel_index = 2
        /\ ~posted[g][1].falling
        /\ posted[g][1].priority = "URGENT"

----------------------------------------------------------------------------
(* Writing a reading twice, evaluating it twice *)

\* Whatever the instrument answers: the gauge after get_pressures has stored
\* the answers is the gauge after it has stored them a second time, and the
\* check that follows returns the same.
WriteTwiceSame(g) ==
    \A resp \in [1..Len(gauge[g].channels) -> device[g]] :
        ~get_pressures(gauge[g], resp).raised =>
            /\ ~get_pressures(get_pressures(gauge[g], resp).gauge, resp).raised
            /\ get_pressures(get_pressures(gauge[g], resp).gauge, resp).gauge
                    = get_pressures(gauge[g], resp).gauge
            /\ \A ident \in BOOLEAN :
                  check_if_update_needed(
                      get_pressures(get_pressures(gauge[g], resp).gauge, resp).gauge, ident).value
                  = check_if_update_needed(get_pressures(gauge[g], resp).gauge, ident).value

\* Every status the gauge holds is an int of the interpreter's cache.
StatusesCached(g) ==
    \A i \in ChannelsOf(g) :
        gauge[g].cur_status[i] # None =>
            /\ Val(gauge[g].cur_status[i]) >= SmallIntMin
            /\ Val(gauge[g].cur_status[i]) <= SmallIntMax

\* update_alerting_status, repeated on the gauge as it is, changes nothing.
AlertingTwiceSame(g) ==
    /\ ~gauge_update_alerting_status(gauge[g]).raised
    /\ gauge_update_alerting_status(gauge[g]).gauge = gauge[g]

(* C23: a reading written twice with no check in between leaves the gauge,
   and the result of the check that follows, as the reading written once
   does; and once check_if_update_needed and update_alerting_status have
   evaluated a reading, evaluating the same reading again gives the result
   and the flags the first evaluation gave (with every status an int in
   -5..256, for which identity is equality). *)
C23_EvaluationPure ==
    \A g \in Gauges : InUse(g) =>
        /\ WriteTwiceSame(g)
        /\ (Returned(g, "check_if_update_needed") /\ StatusesCached(g))
              => \A ident \in BOOLEAN :
                    check_if_update_needed(gauge[g], ident).value = ret[g].value
        /\ Returned(g, "gauge.update_alerting_status") => AlertingTwiceSame(g)

(* C23, amended: a reading written twice with no check in between leaves the
   gauge, and the result of the check that follows, as the reading written
   once does.  check_if_update_needed is not pure: it has made the previous
   values the current ones, so that, whatever it returned, a second
   evaluation of the same reading changes nothing and returns false, or true
   when the status of some channel is an int outside -5..256, which is
   compared by identity.  update_alerting_status repeated leaves the flags as
   they are. *)
C23_SecondEvaluationFalse ==
    \A g \in Gauges : InUse(g) =>
        /\ WriteTwiceSame(g)
        /\ Returned(g, "check_if_update_needed")
              => /\ \A ident \in BOOLEAN :
                       check_if_update_needed(gauge[g], ident).gauge = gauge[g]
                 /\ ~check_if_update_needed(gauge[g], FALSE).value
                 /\ check_if_update_needed(gauge[g], TRUE).value <=> ~StatusesCached(g)
        /\ Returned(g, "gauge.update_alerting_status") => AlertingTwiceSame(g)

\* A check has returned true for a reading whose second evaluation returns
\* false; writing the reading again would change nothing.
C23_Witness ==
    \E g \in Gauges :
        /\ Returned(g, "check_if_update_needed")
        /\ ret[g].value
        /\ AllRead(g)
        /\ \A ident \in BOOLEAN : ~check_if_update_needed(gauge[g], ident).value
        /\ \E resp \in [1..Len(gauge[g].channels) -> device[g]] :
              get_pressures(gauge[g], resp).gauge = gauge[g]

----------------------------------------------------------------------------
(* What check_if_update_needed leaves behind *)

\* The step is a call of check_if_update_needed on g.
CheckStep(g) ==
    /\ ret'[g].op = "check_if_update_needed"
    /\ ret'[g] # ret[g] \/ gauge'[g] # gauge[g]

(* C24: every call of check_if_update_needed, whatever it returns, leaves
   cur_pressure and cur_status as they were and leaves prev_pressure[i] =
   cur_pressure[i] and prev_status[i] = cur_status[i] for every channel i. *)
C24_PreviousIsCurrent ==
    [][ \A g \in Gauges :
          CheckStep(g) =>
              /\ gauge'[g].cur_pressure = gauge[g].cur_pressure
              /\ gauge'[g].cur_status = gauge[g].cur_status
              /\ gauge'[g].prev_pressure = gauge'[g].cur_pressure
              /\ gauge'[g].prev_status = gauge'[g].cur_status ]_vars

\* A call that found a previous pressure other than the current one,
\* returned false, and left the previous pressure equal to the current one.
C24_Witness ==
    \E g \in Gauges : \E i \in ChannelsOf(g) :
        /\ Returned(g, "check_if_update_needed")
        /\ ~ret[g].value
        /\ ret[g].before.prev_pressure[i] # None
        /\ ret[g].before.prev_pressure[i] # gauge[g].cur_pressure[i]
        /\ gauge[g].prev_pressure[i] = gauge[g].cur_pressure[i]

----------------------------------------------------------------------------
(* The order of the steps of a tick *)

\* The gauge of g as the check of the last tick found it: the readings of
\* that tick, and the previous values the tick began with.
AtCheck(g) ==
    [gauge[g] EXCEPT !.prev_pressure = ret[g].before.prev_pressure,
                     !.prev_status = ret[g].before.prev_status]

(* C25: in every tick the counter is incremented, then get_pressures runs,
   then check_if_update_needed (also when the counter forces the push), then
   update_alerting_status, then the push if the counter or the check asks
   for it; each step works on what the steps before it left, and a step that
   raises ends the tick with the later steps not run. *)
C25_TickOrder ==
    \A g \in Gauges : Ticked(g) =>
        /\ LastTick(g).ctr >= 1
        /\ LastTick(g).exception \in {"open_serial_port", "get_pressures"}
              => /\ ~LastTick(g).checked /\ ~LastTick(g).pushed
                 /\ gauge[g].prev_pressure = ret[g].before.prev_pressure
                 /\ gauge[g].prev_status = ret[g].before.prev_status
                 /\ posted[g] = <<>>
        /\ LastTick(g).exception \in {"none", "update_alerting_status", "push_to_grafana"}
              => /\ LastTick(g).checked
                 /\ gauge[g].prev_pressure = gauge[g].cur_pressure
                 /\ gauge[g].prev_status = gauge[g].cur_status
                 /\ \E ident \in BOOLEAN :
                       LastTick(g).check = check_if_update_needed(AtCheck(g), ident).value
        /\ LastTick(g).exception = "update_alerting_status" => ~LastTick(g).pushed
        /\ LastTick(g).exception \in {"none", "push_to_grafana"}
              => /\ gauge_update_alerting_status(gauge[g]).gauge = gauge[g]
                 /\ LastTick(g).pushed <=> (forced(LastTick(g).ctr) \/ LastTick(g).check)

\* A tick whose counter forced the push has read a new pressure, checked it
\* and committed it, and pushed.
C25_Witness ==
    \E g \in Gauges :
        /\ Ticked(g)
        /\ LastTick(g).exception = "none"
        /\ forced(LastTick(g).ctr)
        /\ LastTick(g).checked /\ LastTick(g).check /\ LastTick(g).pushed
        /\ ret[g].before.prev_pressure # gauge[g].cur_pressure
        /\ gauge[g].prev_pressure = gauge[g].cur_pressure

----------------------------------------------------------------------------
(* The push-forcing counter *)

\* A step of the polling loop of g: the thread was polling and something of
\* the gauge, the thread or its loop is no longer what it was.
TickStep(g) ==
    /\ thread[g].pc = "polling"
    /\ <<gauge[g], thread[g], run[g], ret[g], posted[g]>>'
         # <<gauge[g], thread[g], run[g], ret[g], posted[g]>>

(* C26: a tick that calls push_to_grafana, forced or for a change and
   whatever becomes of the post, leaves update_ctr at 0; any other tick
   leaves it one higher than it was; and a loop that goes on to its next
   tick does so with 0 <= update_ctr <= 60. *)
C26_CounterReset ==
    [][ \A g \in Gauges : TickStep(g) =>
          /\ LastTick(g)'.pushed => thread'[g].update_ctr = 0
          /\ ~LastTick(g)'.pushed => thread'[g].update_ctr = thread[g].update_ctr + 1
          /\ thread'[g].pc = "polling"
                => thread'[g].update_ctr \in 0..UPDATE_CEILING ]_vars

----------------------------------------------------------------------------
(* The end of a thread *)

\* Everything the loop of g reads, updates, pushes or posts.
LoopState(g) == <<gauge[g], thread[g], run[g], posted[g], ret[g]>>

(* C27: once the thread of a gauge is terminated, after an exception in the
   loop or a failed open, no step reads from its instrument, updates its
   state, pushes or posts for it, or puts the thread back to work: whatever
   main or the other threads do, the gauge, the thread and the loop stay as
   they are. *)
C27_TerminatedAbsorbing ==
    [][ \A g \in Gauges :
          thread[g].pc = "terminated" => LoopState(g)' = LoopState(g) ]_vars

\* A loop that ended in an exception, with main having joined the thread and
\* finished after it.
C27_Witness ==
    \E g \in Gauges :
        /\ thread[g].pc = "terminated"
        /\ Excepted(g)
        /\ main.pc = "done"

----------------------------------------------------------------------------
(* What belongs to a gauge *)

\* What the loop of h owns: the readings, previous values and alert flags of
\* its gauge, the trackers and the counter of its thread, its serial handle.
OwnState(h) == <<gauge[h], thread[h], run[h].serial>>

\* A step of the thread of g: an open or a tick, termination included.
ThreadStep(g) ==
    /\ thread[g].pc \in {"started", "polling"}
    /\ LoopState(g)' # LoopState(g)

(* C28: under every interleaving of the threads, a step of the loop of gauge
   g (the open, and a tick with its read, check, alert pass, push and
   termination) leaves the readings, previous values, alert flags, trackers,
   counter and serial handle of every other gauge h as they were. *)
C28_GaugeStateOwned ==
    [][ \A g \in Gauges : ThreadStep(g) =>
          \A h \in Gauges \ {g} : OwnState(h)' = OwnState(h) ]_vars

\* Two loops that have interleaved: both gauges have gone through ticks,
\* one loop has ended, the other polls on with a counter of its own.
C28_Witness ==
    \E g, h \in Gauges :
        /\ g # h
        /\ Ticked(g) /\ thread[g].pc = "terminated"
        /\ Ticked(h) /\ thread[h].pc = "polling"
        /\ thread[h].update_ctr >= 2

----------------------------------------------------------------------------
(* The arrays of a gauge and of its thread *)

\* The lengths of the per-channel arrays of the gauge of g.
GaugeArrays(g) ==
    << Len(gauge[g].prev_pressure), Len(gauge[g].prev_status),
       Len(gauge[g].cur_pressure), Len(gauge[g].cur_status),
       Len(gauge[g].alert_pressure_falling), Len(gauge[g].alert_pressure_rising) >>

\* The edge trackers of the thread of g, once it is constructed.
Trackers(g) == {thread[g].alert_pressure_falling, thread[g].alert_pressure_rising}

(* C29: a gauge that has not been polled yet has no previous and no current
   pressure or status on any channel and all its alert flags false, and a
   thread that has not polled yet has all its trackers false; in every
   reachable state the arrays of the gauge and the trackers of its thread
   have one entry per channel, and the flags and trackers hold booleans. *)
C29_ArraysPerChannel ==
    \A g \in Gauges : Configured(g) =>
        /\ \A k \in 1..6 : GaugeArrays(g)[k] = Len(gauge[g].channels)
        /\ \A i \in ChannelsOf(g) :
              /\ gauge[g].alert_pressure_falling[i] \in BOOLEAN
              /\ gauge[g].alert_pressure_rising[i] \in BOOLEAN
        /\ thread[g].pc # "unborn"
              => \A t \in Trackers(g) :
                    /\ t.kind = "list"
                    /\ Len(t.items) = Len(gauge[g].channels)
                    /\ \A i \in ChannelsOf(g) : t.items[i] \in BOOLEAN
        /\ ~Ticked(g)
              => \A i \in ChannelsOf(g) :
                    /\ gauge[g].prev_pressure[i] = None /\ gauge[g].prev_status[i] = None
                    /\ gauge[g].cur_pressure[i] = None /\ gauge[g].cur_status[i] = None
                    /\ ~gauge[g].alert_pressure_falling[i]
                    /\ ~gauge[g].alert_pressure_rising[i]
                    /\ thread[g].pc = "started"
                          => \A t \in Trackers(g) : t.items[i] = FALSE

\* A loop that has polled: readings on record, a flag of the gauge raised
\* and the tracker of that channel set.
C29_Witness ==
    \E g \in Gauges : \E i \in ChannelsOf(g) :
        /\ Ticked(g) /\ LastTick(g).exception = "none"
        /\ gauge[g].cur_pressure[i] # None /\ gauge[g].prev_pressure[i] # None
        /\ gauge[g].alert_pressure_falling[i]
        /\ thread[g].alert_pressure_falling.items[i] = TRUE

----------------------------------------------------------------------------
(* A previous pressure at or below the division guard *)

\* The call saw, on every channel, a previous pressure that is present and
\* not above 1e-12, and a previous status equal to the current one.
TinyPreviousSameStatus(g) ==
    \A i \in ChannelsOf(g) :
        /\ ret[g].before.prev_pressure[i] # None
        /\ Val(ret[g].before.prev_pressure[i]) <= TinyPressure
        /\ ret[g].before.prev_status[i] # None
        /\ gauge[g].cur_status[i] # None
        /\ Val(gauge[g].cur_status[i]) = Val(ret[g].before.prev_status[i])

(* C30: a call of check_if_update_needed that finds, on every channel, the
   previous pressure present but not above 1e-12 (0 included) and the status
   unchanged does not raise and returns false, whatever the current pressures
   are: no ratio is formed with such a previous pressure. *)
C30_TinyPreviousNoRatio ==
    \A g \in Gauges :
        ( /\ Configured(g)
          /\ ret[g].op = "check_if_update_needed"
          /\ TinyPreviousSameStatus(g) )
        => ~ret[g].raised /\ ~ret[g].value

----------------------------------------------------------------------------
(* A chain of successive deltas *)

\* The call saw, on every channel, a reading within the band of the reading
\* evaluated before it, and the status that reading had.
WithinBandOfPredecessor(g) ==
    \A i \in ChannelsOf(g) :
        /\ ret[g].before.prev_pressure[i] # None
        /\ gauge[g].cur_pressure[i] # None
        /\ ~RatioOutside(gauge[g].cur_pressure[i], ret[g].before.prev_pressure[i])
        /\ ret[g].before.prev_status[i] # None
        /\ Val(gauge[g].cur_status[i]) = Val(ret[g].before.prev_status[i])

(* C31: a reading is compared with the reading evaluated just before it and
   with nothing else: every call of check_if_update_needed that finds each
   channel's pressure within the 0.5% band of its predecessor, with the status
   that predecessor had, returns false, wherever the chain of readings began. *)
C31_ChainOfDeltas ==
    \A g \in Gauges :
        (Returned(g, "check_if_update_needed") /\ WithinBandOfPredecessor(g))
        => ~ret[g].value

----------------------------------------------------------------------------
(* The serial handle *)

(* C32: for every gauge class the serial port is opened once per thread,
   before the loop, and not again while the loop polls: the handle the gauge
   holds while it polls, and the one closed when the loop ends, is the handle
   of that first open. *)
C32_OpenedOnce ==
    \A g \in Gauges :
        /\ run[g].handle \in {"none", "first"}
        /\ (thread[g].pc = "polling" \/ Ticked(g)) => run[g].handle = "first"

----------------------------------------------------------------------------
(* Two checks in succession *)

\* A call of check_if_update_needed on g that follows another one directly,
\* with no get_pressures between the two.
SecondCheck(g) ==
    /\ Returned(g, "check_if_update_needed")
    /\ Returned(g, "check_if_update_needed")'
    /\ ret'[g] # ret[g]

(* C33: when check_if_update_needed is called twice in succession with no
   get_pressures in between and every channel has a current reading, the
   second call returns false: the first has made previous equal to current. *)
C33_SecondCheckFalse ==
    [][ \A g \in Gauges :
          (SecondCheck(g) /\ AllRead(g)) => ~ret'[g].value ]_vars

----------------------------------------------------------------------------
(* An alert post that raises *)

\* The last tick of g ended in an alert post that raised; FailedPost is the
\* message that was being posted.
PostRaised(g) == Ticked(g) /\ LastTick(g).failed_post # None
FailedPost(g) == Val(LastTick(g).failed_post)

(* C34: when the post of an alert notification raises during the alert pass
   of a tick, the tracker of that channel and class has been set in that tick
   before the post, the loop is terminated in that tick without its metrics
   push, and the notification is not posted again: what the except clause
   posts is the message of the exception. *)
C34_AlertPostRaises ==
    \A g \in Gauges : PostRaised(g) =>
        /\ EntryIs(TrackerOf(thread[g], FailedPost(g).falling), FailedPost(g).channel_index, TRUE)
        /\ EntryIs(TrackerOf(ret[g].before, FailedPost(g).falling), FailedPost(g).channel_index, FALSE)
        /\ thread[g].pc = "terminated"
        /\ LastTick(g).exception = "update_alerting_status"
        /\ ~LastTick(g).pushed /\ ~LastTick(g).push_ok
        /\ posted[g] = <<>>
        /\ \A k \in 1..Len(run[g].notices) : run[g].notices[k].kind = "exception"

\* A tick that read a changed pressure, so that a push was due, and ended in
\* the post of the falling alert.
C34_Witness ==
    \E g \in Gauges :
        /\ PostRaised(g)
        /\ FailedPost(g).falling
        /\ LastTick(g).check
        /\ thread[g].pc = "terminated"

====
